---- MODULE Spec2Model ----
(***************************************************************************)
(* Gaussian-beam Fresnel propagation engine of poppy/fresnel.py:           *)
(* the beam state of gaussian_wavefront, the propagation primitives        *)
(* (propagateDirect/ptp, wts, stw), the regime dispatcher propagateFresnel *)
(* and the lens interaction operator apply_optic.                          *)
(*                                                                         *)
(* Representation.  Lengths are exact extended rationals <<n, d>>:         *)
(* d > 0 is the rational n/d in lowest terms, <<1,0>> and <<-1,0>> are     *)
(* +inf and -inf, <<0,0>> is NaN (the values numpy produces for division   *)
(* by zero on astropy quantities; rounding and the sign of zero are not    *)
(* modelled).  Axial lengths are in metres.  The waist radius is kept as   *)
(* w_0sq = pi*w_0^2/wavelength, so that no square root is needed; the      *)
(* pixel scale is kept in units in which wavelength/n = 1.  The sampled    *)
(* field is abstracted to `wavefront', the number of in-place mutations    *)
(* applied to the array so far, together with `trace', the list of the     *)
(* primitives called and field operations performed by the last call.      *)
(***************************************************************************)
EXTENDS Integers, Sequences, FiniteSets, TLC

(* ---------------- bounds ---------------- *)
MaxCalls == 3

MaxNum == 9

(* ---------------- extended rational arithmetic ---------------- *)
RECURSIVE GCD(_, _)
GCD(a, b) == IF b = 0 THEN a ELSE GCD(b, a % b)

IAbs(i) == IF i < 0 THEN -i ELSE i

Sgn(i) == IF i < 0 THEN -1 ELSE IF i = 0 THEN 0 ELSE 1

Norm(x) ==
    IF x[2] = 0 THEN <<Sgn(x[1]), 0>>
    ELSE LET g == GCD(IAbs(x[1]), IAbs(x[2]))
         IN  <<Sgn(x[2]) * Sgn(x[1]) * (IAbs(x[1]) \div g), IAbs(x[2]) \div g>>

R(i) == <<i, 1>>

Zero == R(0)

One == R(1)

Inf == <<1, 0>>

NaN == <<0, 0>>

IsNaN(x) == x = NaN

IsInf(x) == x[2] = 0 /\ x[1] # 0

Neg(x) == <<-x[1], x[2]>>

Add(x, y) ==
    IF IsNaN(x) \/ IsNaN(y) THEN NaN
    ELSE IF IsInf(x) /\ IsInf(y) THEN (IF x = y THEN x ELSE NaN)
    ELSE IF IsInf(x) THEN x
    ELSE IF IsInf(y) THEN y
    ELSE LET g == GCD(x[2], y[2])
         IN  Norm(<<x[1] * (y[2] \div g) + y[1] * (x[2] \div g),
                    (x[2] \div g) * y[2]>>)

Sub(x, y) == Add(x, Neg(y))

Mul(x, y) ==
    IF x[2] = 0 \/ y[2] = 0 THEN <<Sgn(x[1]) * Sgn(y[1]), 0>>
    ELSE LET g1 == GCD(IAbs(x[1]), y[2])
             g2 == GCD(IAbs(y[1]), x[2])
         IN  Norm(<<(x[1] \div g1) * (y[1] \div g2),
                    (x[2] \div g2) * (y[2] \div g1)>>)

Inv(x) == Norm(<<x[2], x[1]>>)

Div(x, y) == Mul(x, Inv(y))

Sq(x) == Mul(x, x)

Abs(x) == <<IAbs(x[1]), x[2]>>

Eq(x, y) == ~IsNaN(x) /\ ~IsNaN(y) /\ x = y

Lt(x, y) ==
    /\ ~IsNaN(x) /\ ~IsNaN(y)
    /\ x # y
    /\ IF IsInf(x) THEN x[1] < 0
       ELSE IF IsInf(y) THEN y[1] > 0
       ELSE LET g == GCD(x[2], y[2])
            IN  x[1] * (y[2] \div g) < y[1] * (x[2] \div g)

Gt(x, y) == Lt(y, x)

(* Lens interactions are explored from beam parameters whose numerators   *)
(* and denominators are at most MaxNum.                                    *)
Small(x) == IAbs(x[1]) <= MaxNum /\ x[2] <= MaxNum

(* ---------------- program constants ---------------- *)
_PUPIL == 1

_IMAGE == 2

_INTERMED == 5

rayl_factor == 2

PlaneTypes == {_PUPIL, _IMAGE, _INTERMED}

(* ---------------- inputs ---------------- *)
BeamRadii == {R(1), R(2)}

Focals == {R(-1), R(1), R(2)}

Targets == {R(0), R(1), R(3)}

LensPos == {R(0), R(1)}

NoOptic == [fl |-> NaN, z_m |-> NaN, planetype |-> 0]

VARIABLES wf, optic, status, trace, branch, last, calls

vars == <<wf, optic, status, trace, branch, last, calls>>

(* ---------------- derived quantities ---------------- *)
z_R(w) == w.w_0sq

R_c(w, zz) ==
    LET dz == Sub(zz, w.z_w0)
    IN  Mul(dz, Add(One, Sq(Div(z_R(w), dz))))

spot_radius_sq(w, zz) ==
    Mul(w.w_0sq, Add(One, Sq(Div(Sub(zz, w.z_w0), z_R(w)))))

(* ---------------- execution frames ---------------- *)
Frame(w) ==
    [wf |-> w, trace |-> <<>>, status |-> "ok", branch |-> "none",
     z_eff |-> NaN, R_input_beam |-> NaN]

Ev(o, a) == [op |-> o, arg |-> a]

Log(x, o, a) == [x EXCEPT !.trace = Append(@, Ev(o, a))]

Mutate(x, o, a) ==
    [Log(x, o, a) EXCEPT !.wf.wavefront = @ + 1]

Raise(x, e) == [x EXCEPT !.status = e]

(* ---------------- optics ---------------- *)
(* curvature.__init__: a quantity is converted to metres, a bare number is *)
(* taken as metres; the plane type handed to the base class is _PUPIL.     *)
curvature(zv, isQuantity) ==
    [fl |-> NaN, z_m |-> zv, planetype |-> _PUPIL]

(* Gaussian_Lens.__init__: the base initialiser is given -f_lens; the      *)
(* bare-number branch then reads the undefined name z and raises.          *)
Gaussian_Lens(f_lens, isQuantity) ==
    LET base == curvature(Neg(f_lens), isQuantity)
    IN  IF isQuantity
        THEN [obj |-> [base EXCEPT !.fl = f_lens], status |-> "ok"]
        ELSE [obj |-> NoOptic, status |-> "NameError"]

(* ---------------- propagation primitives ---------------- *)
propagateDirect(x, zt, isQuantity) ==
    IF x.status # "ok" THEN x
    ELSE Mutate(x, "direct_transform", zt)

ptp(x, z2, isQuantity) ==
    IF x.status # "ok" THEN x
    ELSE propagateDirect(Log(x, "ptp", z2), z2, isQuantity)

(* Faulty variant of zero_step: the zero-displacement test never fires.     *)
zero_step_never(dz) == FALSE

(* `if dz == 0: return' of wts and stw.                                    *)
zero_step(dz) == Eq(dz, Zero)

(* z2 - self.z: self.z is a quantity, so a bare z2 other than 0 is a units *)
(* error.                                                                  *)
wts(x, z2, isQuantity) ==
    IF x.status # "ok" THEN x
    ELSE LET x0 == Log(x, "wts", z2)
             dz == Sub(z2, x.wf.z)
         IN  IF ~isQuantity /\ z2 # Zero THEN Raise(x0, "UnitsError")
             ELSE IF zero_step(dz) THEN x0
             ELSE LET x1 == Mutate(x0, "curvature", Neg(dz))
                      x2 == Mutate(x1, IF Gt(dz, Zero) THEN "forward_FFT"
                                       ELSE "inverse_FFT", Zero)
                      x3 == [x2 EXCEPT !.wf.pixelscale = Div(Abs(dz), @),
                                       !.wf.z = Add(@, dz)]
                  IN  Mutate(x3, "fftshift", Zero)

stw(x, z2, isQuantity) ==
    IF x.status # "ok" THEN x
    ELSE LET x0 == Log(x, "stw", z2)
             dz == Sub(z2, x.wf.z)
         IN  IF ~isQuantity /\ z2 # Zero THEN Raise(x0, "UnitsError")
             ELSE IF zero_step(dz) THEN x0
             ELSE LET x1 == Mutate(x0, IF Gt(dz, Zero) THEN "forward_FFT"
                                       ELSE "inverse_FFT", Zero)
                      x2 == Mutate(x1, "curvature", dz)
                      x3 == [x2 EXCEPT !.wf.pixelscale = Div(Abs(dz), @),
                                       !.wf.z = Add(@, dz)]
                  IN  Mutate(x3, "fftshift", Zero)

(* Faulty variant of planar_range: the target position is tested.          *)
planar_range_target(w, zt) == Lt(Abs(Sub(w.z_w0, zt)), z_R(w))

(* The argument z is not used: the current position is tested.             *)
planar_range(w, zt) == Lt(Abs(Sub(w.z_w0, w.z)), z_R(w))

propagateFresnel(x, zt, isQuantity) ==
    IF ~x.wf.spherical
    THEN IF planar_range(x.wf, zt)
         THEN ptp(x, zt, isQuantity)
         ELSE wts(ptp(x, x.wf.z_w0, TRUE), zt, isQuantity)
    ELSE IF planar_range(x.wf, zt)
         THEN ptp(stw(x, x.wf.z_w0, TRUE), zt, isQuantity)
         ELSE stw(x, x.wf.z_w0, TRUE)

(* ---------------- lens interaction ---------------- *)
(* Base-class far-field propagation used by the fast path: nothing to do   *)
(* when beam and optic are on the same plane type, otherwise the field is  *)
(* transformed to the optic's plane.  (The resampling of the pixel scale   *)
(* by the base class is left out.)                                         *)
propagateTo(x, o) ==
    IF x.wf.planetype = o.planetype THEN x
    ELSE [Mutate(x, "propagateTo", Zero) EXCEPT !.wf.planetype = o.planetype]

(* Lines 401-429.  The near-field case reads the undefined name fl; when   *)
(* no test holds z_eff is unassigned at line 431.  In the spherical to     *)
(* spherical case the value assigned under `if R_input_beam == 0' is       *)
(* always overwritten by the if/else that follows it.                      *)
z_eff_select(x, o, zl, R_input_beam) ==
    LET w     == x.wf
        off   == Abs(Sub(w.z_w0, zl))
        recip == Inv(Sub(zl, w.z_w0))
    IN  IF ~w.spherical /\ Lt(off, z_R(w))
        THEN Raise([x EXCEPT !.branch = "near"], "NameError")
        ELSE IF ~w.spherical /\ Gt(off, z_R(w))
        THEN [x EXCEPT !.branch = "planar_to_spherical",
                       !.wf.spherical = TRUE,
                       !.z_eff = Inv(Add(Inv(o.fl), recip))]
        ELSE IF w.spherical /\ Gt(off, z_R(w))
        THEN [x EXCEPT !.branch = "spherical_to_spherical",
                       !.z_eff = IF Eq(Sub(zl, w.z_w0), Zero)
                                 THEN Inv(Add(Inv(o.fl), recip))
                                 ELSE Inv(Sub(Add(Inv(o.fl), recip),
                                              Inv(R_input_beam)))]
        ELSE IF w.spherical /\ Lt(off, z_R(w))
        THEN [x EXCEPT !.branch = "spherical_to_planar",
                       !.wf.spherical = FALSE,
                       !.z_eff = Inv(Sub(Inv(o.fl), Inv(R_input_beam)))]
        ELSE Raise([x EXCEPT !.branch = "unbound"], "UnboundLocalError")

(* Faulty variant of flat_output: the flat-output test never fires.        *)
flat_output_never(w, o, zl) == FALSE

(* `if self.R_c(zl) == optic.fl' on the pre-lens state.                    *)
flat_output(w, o, zl) == Eq(R_c(w, zl), o.fl)

(* Lines 361-388: regime of the input beam and the post-lens waist.        *)
waist_update(x, o, zl) ==
    LET w            == x.wf
        new_waist_sq == spot_radius_sq(w, zl)
        far          == Gt(Abs(Sub(w.z_w0, w.z)), Mul(R(rayl_factor), z_R(w)))
        R_input_beam == IF far THEN Sub(w.z, w.z_w0) ELSE Inf
        onPlane      == w.planetype = _PUPIL \/ w.planetype = _IMAGE
        r_curve      == IF onPlane THEN Neg(o.fl)
                        ELSE Inv(Sub(Inv(R_c(w, zl)), Inv(o.fl)))
        flat         == flat_output(w, o, zl)
        z_w0_new     == IF flat THEN zl
                        ELSE Add(Div(Neg(r_curve),
                                     Add(One, Sq(Div(r_curve, new_waist_sq)))),
                                 zl)
        w_0sq_new    == IF flat THEN new_waist_sq
                        ELSE Div(new_waist_sq,
                                 Add(One, Sq(Div(new_waist_sq, r_curve))))
    IN  [x EXCEPT !.wf.spherical = IF far THEN TRUE ELSE @,
                  !.wf.z_w0 = z_w0_new,
                  !.wf.w_0sq = w_0sq_new,
                  !.R_input_beam = R_input_beam]

(* Lines 390-432: fast path, parameter-only return, field update.          *)
field_update(x, o, zl, ignore_wavefront) ==
    LET w       == x.wf
        onPlane == w.planetype = _PUPIL \/ w.planetype = _IMAGE
    IN  IF ~w.force_fresnel /\ onPlane
           /\ (o.planetype = _IMAGE \/ o.planetype = _PUPIL)
        THEN propagateTo([x EXCEPT !.branch = "fast"], o)
        ELSE IF ignore_wavefront
        THEN [x EXCEPT !.branch = "ignore"]
        ELSE LET x2 == z_eff_select(x, o, zl, x.R_input_beam)
             IN  IF x2.status # "ok" THEN x2
                 ELSE Mutate(x2, "curvature", Neg(x2.z_eff))

apply_optic(x, o, z_lens, isQuantity, ignore_wavefront) ==
    IF ~isQuantity THEN Raise(x, "AttributeError")
    ELSE field_update(waist_update(x, o, z_lens), o, z_lens, ignore_wavefront)

(* ---------------- state machine ---------------- *)
(* gaussian_wavefront.__init__: the beam starts at z = 0 with its waist at *)
(* z = 0, planar; the plane type and the grid come from the base class.    *)
Init ==
    /\ wf \in [z : {Zero}, z_w0 : {Zero}, w_0sq : BeamRadii,
               spherical : {FALSE}, planetype : PlaneTypes,
               force_fresnel : BOOLEAN, pixelscale : {One},
               wavefront : {0}]
    /\ optic = NoOptic
    /\ status = "ok"
    /\ trace = <<>>
    /\ branch = "none"
    /\ last = [op |-> "init", arg |-> Zero, isQuantity |-> TRUE,
               ignore |-> FALSE, pre |-> wf, optic |-> NoOptic]
    /\ calls = 0

Return(x, opname, a, q, ig) ==
    /\ wf' = x.wf
    /\ status' = x.status
    /\ trace' = x.trace
    /\ branch' = x.branch
    /\ last' = [op |-> opname, arg |-> a, isQuantity |-> q, ignore |-> ig,
                pre |-> wf, optic |-> optic]
    /\ calls' = calls + 1

New_Gaussian_Lens ==
    /\ calls < MaxCalls
    /\ \E f \in Focals, q \in BOOLEAN :
          LET r == Gaussian_Lens(f, q)
          IN  /\ optic' = IF r.status = "ok" THEN r.obj ELSE optic
              /\ Return([Frame(wf) EXCEPT !.status = r.status],
                        "Gaussian_Lens", f, q, FALSE)

Call_propagateDirect ==
    /\ calls < MaxCalls
    /\ \E zt \in Targets, q \in BOOLEAN :
          Return(propagateDirect(Frame(wf), zt, q), "propagateDirect", zt, q, FALSE)
    /\ UNCHANGED optic

Call_wts ==
    /\ calls < MaxCalls
    /\ \E zt \in Targets, q \in BOOLEAN :
          Return(wts(Frame(wf), zt, q), "wts", zt, q, FALSE)
    /\ UNCHANGED optic

Call_stw ==
    /\ calls < MaxCalls
    /\ \E zt \in Targets, q \in BOOLEAN :
          Return(stw(Frame(wf), zt, q), "stw", zt, q, FALSE)
    /\ UNCHANGED optic

Call_propagateFresnel ==
    /\ calls < MaxCalls
    /\ \E zt \in Targets, q \in BOOLEAN :
          Return(propagateFresnel(Frame(wf), zt, q), "propagateFresnel", zt, q, FALSE)
    /\ UNCHANGED optic

Call_apply_optic ==
    /\ calls < MaxCalls
    /\ optic # NoOptic
    /\ Small(wf.z) /\ Small(wf.z_w0) /\ Small(wf.w_0sq)
    /\ \E zl \in LensPos, q \in BOOLEAN, ig \in BOOLEAN :
          Return(apply_optic(Frame(wf), optic, zl, q, ig), "apply_optic", zl, q, ig)
    /\ UNCHANGED optic

Next ==
    \/ New_Gaussian_Lens
    \/ Call_propagateDirect
    \/ Call_wts
    \/ Call_stw
    \/ Call_propagateFresnel
    \/ Call_apply_optic

Spec == Init /\ [][Next]_vars

(* ---------------- observations used by the properties ---------------- *)
IsPrimitive(e) == e.op \in {"ptp", "wts", "stw"}

Prims(tr) == SelectSeq(tr, IsPrimitive)

IsFieldOp(e) == ~IsPrimitive(e)

FieldOps(tr) == SelectSeq(tr, IsFieldOp)

EntryInRange == Lt(Abs(Sub(last.pre.z_w0, last.pre.z)), last.pre.w_0sq)

EntryFar ==
    Gt(Abs(Sub(last.pre.z_w0, last.pre.z)), Mul(R(rayl_factor), last.pre.w_0sq))

EntryFastPath ==
    /\ ~last.pre.force_fresnel
    /\ last.pre.planetype \in {_PUPIL, _IMAGE}
    /\ last.optic.planetype \in {_PUPIL, _IMAGE}

FieldUpdateReached ==
    /\ last.op = "apply_optic"
    /\ last.isQuantity
    /\ ~last.ignore
    /\ ~EntryFastPath

(* ---------------- properties ---------------- *)

(* C1: when propagateFresnel(z) returns, position_z equals the target z.   *)
C1_PositionReached ==
    (last.op = "propagateFresnel" /\ status = "ok") => wf.z = last.arg

C3_ZeroStepNoOp ==
    (last.op \in {"wts", "stw"} /\ last.isQuantity /\ Eq(last.arg, last.pre.z))
        => /\ wf = last.pre
           /\ status = "ok"
           /\ FieldOps(trace) = <<>>

C3_Witness ==
    /\ last.op \in {"wts", "stw"}
    /\ last.isQuantity
    /\ Eq(last.arg, last.pre.z)
    /\ last.arg # Zero
    /\ last.pre.wavefront > 0

(* C4: apply_optic with ignore_wavefront=True is a parameter-only update:   *)
(* the sampled field and the pixel scale are unchanged when it returns,    *)
(* the pupil/image fast path included.                                     *)
C4_ParameterOnly ==
    (last.op = "apply_optic" /\ last.ignore)
        => /\ wf.wavefront = last.pre.wavefront
           /\ wf.pixelscale = last.pre.pixelscale

(* C5: an operation given a bare number for a distance completes without   *)
(* an error.                                                               *)
C5_BareNumberAccepted ==
    (last.op # "init" /\ ~last.isQuantity) => status = "ok"

(* C6: when radius_of_curvature(z_lens) on the pre-lens state equals the   *)
(* focal length exactly, apply_optic sets waist_position to z_lens and the *)
(* waist radius to the pre-lens spot_radius(z_lens).                       *)
C6_FlatOutput ==
    (/\ last.op = "apply_optic"
     /\ last.isQuantity
     /\ Eq(R_c(last.pre, last.arg), last.optic.fl))
        => /\ wf.z_w0 = last.arg
           /\ wf.w_0sq = spot_radius_sq(last.pre, last.arg)

C6_Witness ==
    /\ last.op = "apply_optic"
    /\ last.isQuantity
    /\ Eq(R_c(last.pre, last.arg), last.optic.fl)
    /\ last.pre.planetype = _PUPIL
    /\ wf.z_w0 = last.arg

(* C7: after propagateFresnel, is_spherical is true when the last          *)
(* primitive applied was wts and false when it was ptp or stw.             *)
C7_FlagTracksTransform ==
    (last.op = "propagateFresnel" /\ status = "ok" /\ Prims(trace) # <<>>)
        => LET p == Prims(trace)[Len(Prims(trace))]
           IN  /\ p.op = "wts" => wf.spherical
               /\ p.op \in {"ptp", "stw"} => ~wf.spherical

(* C8: in the near-field case (field update reached, beam planar before    *)
(* the lens, within the Rayleigh range of the new waist) apply_optic       *)
(* completes by multiplying the curvature built from -focal_length into    *)
(* the field and leaves is_spherical false.                                *)
C8_NearField ==
    (/\ FieldUpdateReached
     /\ ~last.pre.spherical
     /\ ~EntryFar
     /\ Lt(Abs(Sub(wf.z_w0, last.arg)), wf.w_0sq))
        => /\ status = "ok"
           /\ FieldOps(trace) = <<Ev("curvature", Neg(last.optic.fl))>>
           /\ ~wf.spherical

(* C9: a spherical-before case of apply_optic is selected only when        *)
(* |waist_position - position_z| > rayleigh_factor * rayleigh_range held   *)
(* at entry of that call.                                                  *)
C9_RegimeFromEntry ==
    (/\ last.op = "apply_optic"
     /\ branch \in {"spherical_to_spherical", "spherical_to_planar"})
        => EntryFar

(* C10: every call that reaches the field update selects one of the four   *)
(* cases and ends by multiplying exactly one curvature into the field.     *)
C10_CasesExhaustive ==
    FieldUpdateReached
        => /\ status = "ok"
           /\ branch \in {"near", "planar_to_spherical",
                          "spherical_to_spherical", "spherical_to_planar"}
           /\ Len(FieldOps(trace)) = 1
           /\ FieldOps(trace)[1].op = "curvature"

====
